---- MODULE Spec2Model ----
(***************************************************************************)
(* Agent graph page (src/app/agents/page.tsx), the progress publish        *)
(* endpoint (src/unnamed/part_000) and the shipped agent graph             *)
(* (src/unnamed/part_001), as state machines.                              *)
(*                                                                         *)
(*   SpecMatch   matchAgentByMessage on bounded graphs and messages        *)
(*   SpecLayout  computeLayout on bounded graphs                           *)
(*   SpecDecay   the activity record set under arrivals and sweeps         *)
(*   SpecBus     POST /api/progress/push, the bus and subscribed pages     *)
(*                                                                         *)
(* JavaScript strings are TLA+ strings; undefined/null is the value Undef. *)
(***************************************************************************)
EXTENDS Integers, Sequences, FiniteSets, TLC

VARIABLES
  graph,      \* page.tsx:36   the AgentGraph the function under study is given
  text,       \* page.tsx:67   the message text handed to matchAgentByMessage
  matched,    \* page.tsx:68   the result of matchAgentByMessage
  layout,     \* page.tsx:94   the result of computeLayout
  pc,         \* "input" before the pure function has run, "done" after
  clock,      \* Date.now(), in milliseconds
  activeIds,  \* page.tsx:42   Record<string, number>: node id -> last arrival
  queue,      \* the setActiveIds updaters React has queued and not yet run
  nextSweep,  \* page.tsx:83   when the setInterval callback is next due
  lastArrival, \* history: per id, the Date.now() of its latest arrival update
  req,        \* part_000:8   the body of the request POST handles
  res,        \* part_000:15-20  the response POST returns
  calls,      \* part_000:17  the getBus().publish calls POST made for req
  registry,   \* the bus: the <<session key, client>> pairs subscribed
  wire,       \* per client, the frames its EventSource has yet to dispatch
  pageSession, \* page.tsx:41  per client, the session state of its page
  viewers     \* page.tsx:42   per client, the activeIds of its page

pageVars == <<clock, activeIds, queue, nextSweep, lastArrival>>
busVars == <<req, res, calls, registry, wire, pageSession, viewers>>
vars == <<graph, text, matched, layout, pc, pageVars, busVars>>

\* JavaScript null / undefined / no value.
Undef == "<undefined>"

-----------------------------------------------------------------------------
(* Strings                                                                 *)

UpperCase == "ABCDEFGHIJKLMNOPQRSTUVWXYZ"
LowerCase == "abcdefghijklmnopqrstuvwxyz"

\* The lower-case letter of each upper-case letter.
LowerTable ==
  [c \in {SubSeq(UpperCase, i, i) : i \in 1..Len(UpperCase)} |->
     LET i == CHOOSE j \in 1..Len(UpperCase) : SubSeq(UpperCase, j, j) = c
     IN  SubSeq(LowerCase, i, i)]

\* One character of String.prototype.toLowerCase.
lowerChar(c) == IF c \in DOMAIN LowerTable THEN LowerTable[c] ELSE c

\* String.prototype.toLowerCase, character by character.
RECURSIVE lowerFrom(_, _)
lowerFrom(s, i) ==
  IF i > Len(s) THEN "" ELSE lowerChar(SubSeq(s, i, i)) \o lowerFrom(s, i + 1)

\* String.prototype.toLowerCase.
toLowerCase(s) == lowerFrom(s, 1)

\* toLowerCase with its results on the given strings computed once.
Lowered(S) == [s \in S |-> toLowerCase(s)]

\* String.prototype.includes: sub occurs in s as a contiguous substring.
includes(s, sub) ==
  \E i \in 1..(Len(s) - Len(sub) + 1) : SubSeq(s, i, i + Len(sub) - 1) = sub

\* RegExp.prototype.test for a pattern that is an alternation of literals.
test(alternatives, s) == \E a \in alternatives : includes(s, a)

-----------------------------------------------------------------------------
(* The agent graph                                                         *)

\* AgentNode["group"], in the order computeLayout places the lanes.
laneOrder == <<"orchestration", "analysis", "generation", "media", "progress">>

\* An AgentNode. methods, description and env are read by no function modelled here.
Node(id, name, path, group) == [id |-> id, name |-> name, path |-> path, group |-> group]

\* An AgentEdge. label and optional are read by no function modelled here.
Edge(from, to) == [from |-> from, to |-> to]

\* The nodes getAgentGraph serves, in their order.
nodes == <<
  Node("voice.run", "Voice Run", "/api/voice/run", "orchestration"),
  Node("demographics.expand", "Demographics Expand", "/api/demographics/expand", "analysis"),
  Node("cultural.intelligence", "Cultural Intelligence", "/api/cultural/intelligence", "analysis"),
  Node("vision.analyze", "Vision Analyze", "/api/vision/analyze", "analysis"),
  Node("imagen.generate", "Imagen Generate", "/api/imagen/generate", "generation"),
  Node("gemini.generate", "Gemini Generate", "/api/gemini/generate", "generation"),
  Node("gemini.edit", "Gemini Edit", "/api/gemini/edit", "generation"),
  Node("veo.generate", "Veo Generate", "/api/veo/generate", "generation"),
  Node("veo.operation", "Veo Operation", "/api/veo/operation", "generation"),
  Node("veo.download", "Veo Download", "/api/veo/download", "generation"),
  Node("media.index", "Media Index", "/api/media", "media"),
  Node("media.file", "Media File", "/api/media/file", "media"),
  Node("progress.sse", "Progress SSE", "/api/progress", "progress"),
  Node("progress.push", "Progress Push", "/api/progress/push", "progress") >>

\* The edges getAgentGraph serves, in their order.
edges == <<
  Edge("voice.run", "vision.analyze"),
  Edge("voice.run", "cultural.intelligence"),
  Edge("voice.run", "imagen.generate"),
  Edge("voice.run", "veo.generate"),
  Edge("veo.generate", "veo.operation"),
  Edge("veo.operation", "veo.download"),
  Edge("gemini.generate", "media.file"),
  Edge("gemini.edit", "media.file"),
  Edge("imagen.generate", "media.file"),
  Edge("voice.run", "progress.push") >>

getAgentGraph == [nodes |-> nodes, edges |-> edges]

\* useState<AgentGraph>({ nodes: [], edges: [] }): the graph before the fetch
\* resolves.
InitialGraph == [nodes |-> <<>>, edges |-> <<>>]

\* The page's graph in the activity specifications: two shipped nodes and
\* the edge between them.
PageGraph == [nodes |-> <<nodes[1], nodes[8]>>, edges |-> <<edges[4]>>]

-----------------------------------------------------------------------------
(* matchAgentByMessage                                                     *)

\* The five keyword rules in the order of the if-chain: the substring a lookup
\* key must contain, the literals of the message pattern, and the id returned
\* (Undef: the id of the node under inspection).
Rules == <<
  [keyword |-> "voice run", pattern |-> {"voice"},                                returns |-> "voice.run"],
  [keyword |-> "vision",    pattern |-> {"analyz", "image"},                      returns |-> "vision.analyze"],
  [keyword |-> "cultural",  pattern |-> {"cultural", "culture"},                  returns |-> "cultural.intelligence"],
  [keyword |-> "imagen",    pattern |-> {"image", "imagen"},                      returns |-> "imagen.generate"],
  [keyword |-> "veo",       pattern |-> {"video", "veo", "operation", "download"}, returns |-> Undef] >>

\* The lower-cased names, paths and ids of the shipped nodes.
ShippedKeys ==
  Lowered(UNION {{nodes[i].name, nodes[i].path, nodes[i].id} : i \in 1..Len(nodes)})

\* (k || "").toLowerCase()
lowerKey(k) == IF k \in DOMAIN ShippedKeys THEN ShippedKeys[k] ELSE toLowerCase(k)

\* keys of one node, [n.name, n.path, n.id], each lower-cased.
keys(n) == <<lowerKey(n.name), lowerKey(n.path), lowerKey(n.id)>>

\* keys.some((k) => (k || "").toLowerCase().includes(keyword))
some(ks, keyword) == \E i \in 1..Len(ks) : includes(ks[i], keyword)

\* One line of the if-chain, for the lower-cased keys ks and message m.
lineHolds(r, ks, m) == some(ks, Rules[r].keyword) /\ test(Rules[r].pattern, m)

\* Lines that all return the id of the node under inspection.
lineReturn_nodeId(r, id) == id

\* What the line returns for the pair with this id.
lineReturn(r, id) == IF Rules[r].returns = Undef THEN id ELSE Rules[r].returns

\* The if-chain from line r on, for one [id, keys] pair: the value returned,
\* or Undef when the chain falls through.
RECURSIVE ifChain(_, _, _, _)
ifChain(r, id, ks, m) ==
  IF r > Len(Rules) THEN Undef
  ELSE IF lineHolds(r, ks, m) THEN lineReturn(r, id)
  ELSE ifChain(r + 1, id, ks, m)

\* for (const [id, keys] of pairs) from position i on.
RECURSIVE forPairs(_, _, _)
forPairs(i, g, m) ==
  IF i > Len(g.nodes) THEN Undef
  ELSE LET ks == keys(g.nodes[i])
           hit == ifChain(1, g.nodes[i].id, ks, m)
       IN  IF hit # Undef THEN hit ELSE forPairs(i + 1, g, m)

\* Rule r holds for node n and the lower-cased message m.
ruleHolds(r, n, m) == lineHolds(r, keys(n), m)

\* Some lookup key of n contains the keyword.
keysInclude(n, keyword) == some(keys(n), keyword)

\* What rule r returns for node n.
ruleReturn(r, n) == lineReturn(r, n.id)

\* A matcher with the loops exchanged: rules outermost, nodes innermost.
RECURSIVE ruleMajorFrom(_, _, _)
ruleMajorFrom(r, g, m) ==
  IF r > Len(Rules) THEN Undef
  ELSE IF \E i \in 1..Len(g.nodes) : ruleHolds(r, g.nodes[i], m)
       THEN LET i == CHOOSE j \in 1..Len(g.nodes) :
                       /\ ruleHolds(r, g.nodes[j], m)
                       /\ \A k \in 1..(j - 1) : ~ruleHolds(r, g.nodes[k], m)
            IN  ruleReturn(r, g.nodes[i])
       ELSE ruleMajorFrom(r + 1, g, m)

matchAgentByMessage_ruleMajor(g, message) == ruleMajorFrom(1, g, toLowerCase(message))

\* A matcher that keeps scanning and returns the last node's hit.
RECURSIVE lastHitFrom(_, _, _, _)
lastHitFrom(i, g, m, acc) ==
  IF i > Len(g.nodes) THEN acc
  ELSE LET hit == ifChain(1, g.nodes[i].id, keys(g.nodes[i]), m)
       IN  lastHitFrom(i + 1, g, m, IF hit # Undef THEN hit ELSE acc)

matchAgentByMessage_lastHit(g, message) == lastHitFrom(1, g, toLowerCase(message), Undef)

\* matchAgentByMessage(graph, message): string | null
matchAgentByMessage(g, message) == forPairs(1, g, toLowerCase(message))

-----------------------------------------------------------------------------
(* The activity record set: es.onmessage, the sweep, and React's updaters  *)

DecayWindow == 4000
SweepInterval == 1000

\* One step of the clock: half a sweep interval, so that an arrival is either
\* in phase with the sweep timer or half an interval off.
Step == SweepInterval \div 2

\* The clock runs for MaxTicks steps from the time the page mounts.
MaxTicks == 10
MountTime == Step
MaxTime == MountTime + MaxTicks * Step

\* At most this many updaters wait for a render.
MaxQueue == 2

\* useState<Record<string, number>>({})
NoRecords == [k \in {} |-> 0]

\* The ids the activity specifications track.
TrackedIds == {nodes[1].id, nodes[8].id}

\* setActiveIds((prev) => ({ ...prev, [id]: Date.now() })) as a queued updater.
ArrivalUpdater(id) == [kind |-> "arrival", id |-> id, now |-> 0]

\* The sweep's updater, closed over the now of the interval callback.
SweepUpdater(now) == [kind |-> "sweep", id |-> "", now |-> now]

\* An arrival updater that forgets the spread of prev.
applyArrival_noSpread(prev, id, now) == [k \in {id} |-> now]

\* ({ ...prev, [id]: Date.now() })
applyArrival(prev, id, now) ==
  [k \in DOMAIN prev \cup {id} |-> IF k = id THEN now ELSE prev[k]]

\* A sweep that expires a record only when it is older than the window.
applySweep_strictlyOlder(prev, now) ==
  [k \in {j \in DOMAIN prev : now - prev[j] <= DecayWindow} |-> prev[k]]

\* for (const [k, v] of Object.entries(prev)) if (now - v < 4000) next[k] = v
applySweep(prev, now) ==
  [k \in {j \in DOMAIN prev : now - prev[j] < DecayWindow} |-> prev[k]]

\* React runs one queued updater on the current state; an arrival updater
\* reads Date.now() as it runs.
applyUpdater(u, prev, dateNow) ==
  IF u.kind = "arrival" THEN applyArrival(prev, u.id, dateNow)
  ELSE applySweep(prev, u.now)

\* A stream frame: ev.data either fails JSON.parse or parses to an object
\* with the fields the handler reads.
Frame(agentId, txt) == [parses |-> TRUE, agentId |-> agentId, text |-> txt]
Unparseable == [parses |-> FALSE, agentId |-> Undef, text |-> Undef]

\* JavaScript truthiness of a string or undefined.
truthy(v) == v # Undef /\ v # ""

\* A handler that asks the correlation engine first and falls back to the
\* frame's agentId.
onmessage_correlateFirst(frame, g) ==
  IF ~frame.parses THEN <<>>
  ELSE LET txt == IF truthy(frame.text) THEN frame.text ELSE ""
           m == matchAgentByMessage(g, txt)
       IN  IF m # Undef THEN <<ArrivalUpdater(m)>>
           ELSE IF truthy(frame.agentId) THEN <<ArrivalUpdater(frame.agentId)>>
           ELSE <<>>

\* es.onmessage: the updaters the handler queues for one frame, given the
\* graph of the render that installed the handler.
onmessage(frame, g) ==
  IF ~frame.parses THEN <<>>
  ELSE IF truthy(frame.agentId) THEN <<ArrivalUpdater(frame.agentId)>>
  ELSE LET txt == IF truthy(frame.text) THEN frame.text ELSE ""
           m == matchAgentByMessage(g, txt)
       IN  IF m # Undef THEN <<ArrivalUpdater(m)>> ELSE <<>>

\* GraphCanvas: active={Boolean(activeIds[n.id])}
nodeActive(ids, id) == id \in DOMAIN ids /\ ids[id] # 0

\* isEdgeActive(e, active)
isEdgeActive(e, ids) == nodeActive(ids, e.from) \/ nodeActive(ids, e.to)

\* The page variables of a specification that does not run the page.
PageIdle ==
  /\ clock = MountTime
  /\ activeIds = NoRecords
  /\ queue = <<>>
  /\ nextSweep = MountTime + SweepInterval
  /\ lastArrival = [id \in TrackedIds |-> 0]

-----------------------------------------------------------------------------
(* POST /api/progress/push, the bus and the subscribe endpoint             *)

\* JavaScript values of a JSON body: undefined (absent or null), a string,
\* a number (v holds its decimal form) or an object.
jsUndefined == [t |-> "undefined", v |-> ""]
jsString(s) == [t |-> "string", v |-> s]
jsNumber(d) == [t |-> "number", v |-> d]
jsObject == [t |-> "object", v |-> "[object Object]"]

\* typeof x === 'string'
isString(x) == x.t = "string"

\* x || ..., !x : JavaScript truthiness.
jsTruthy(x) ==
  CASE x.t = "undefined" -> FALSE
    [] x.t = "string" -> x.v # ""
    [] x.t = "number" -> x.v # "0"
    [] OTHER -> TRUE

\* String(x) of a string or a number.
String(x) == x.v

\* The characters String.prototype.trim strips that occur in the inputs.
WhiteSpace == {" ", "\t", "\n"}

\* String.prototype.trim
RECURSIVE trim(_)
trim(s) ==
  IF Len(s) = 0 THEN s
  ELSE IF SubSeq(s, 1, 1) \in WhiteSpace THEN trim(SubSeq(s, 2, Len(s)))
  ELSE IF SubSeq(s, Len(s), Len(s)) \in WhiteSpace THEN trim(SubSeq(s, 1, Len(s) - 1))
  ELSE s

\* A request body: req.json() throws (parses = FALSE) or yields the fields.
Body(session, message, agentId, status, data) ==
  [parses |-> TRUE, session |-> session, message |-> message,
   agentId |-> agentId, status |-> status, data |-> data]
NotJson ==
  [parses |-> FALSE, session |-> jsUndefined, message |-> jsUndefined,
   agentId |-> jsUndefined, status |-> jsUndefined, data |-> jsUndefined]

\* A session that ignores the request: every event goes to 'default'.
pushSession_alwaysDefault(body) == "default"

\* const session = String(body?.session || 'default')
pushSession(body) ==
  IF jsTruthy(body.session) THEN String(body.session) ELSE "default"

\* A message taken without trim().
pushMessage_noTrim(body) == IF isString(body.message) THEN body.message.v ELSE ""

\* const message = typeof body?.message === 'string' ? String(body.message).trim() : ''
pushMessage(body) == IF isString(body.message) THEN trim(body.message.v) ELSE ""

\* const agentId = typeof body?.agentId === 'string' ? body.agentId : undefined
pushAgentId(body) == IF isString(body.agentId) THEN body.agentId.v ELSE Undef

\* const status = typeof body?.status === 'string' ? body.status : undefined
pushStatus(body) == IF isString(body.status) THEN body.status.v ELSE Undef

\* const data = (body && typeof body.data === 'object') ? body.data : undefined
pushData(body) == IF body.data.t = "object" THEN body.data.v ELSE Undef

\* { text: message || undefined, agentId, status, data, ts: Date.now() }
pushEvent(body, now) ==
  [text |-> IF pushMessage(body) # "" THEN pushMessage(body) ELSE Undef,
   agentId |-> pushAgentId(body), status |-> pushStatus(body),
   data |-> pushData(body), ts |-> now]

\* POST(req): the response, and the getBus().publish calls made on the way.
POST(body, now) ==
  IF ~body.parses
  THEN [status |-> 500, ok |-> FALSE, calls |-> <<>>]
  ELSE IF ~truthy(pushMessage(body)) /\ ~truthy(pushAgentId(body))
  THEN [status |-> 400, ok |-> FALSE, calls |-> <<>>]
  ELSE [status |-> 200, ok |-> TRUE,
        calls |-> <<[session |-> pushSession(body), event |-> pushEvent(body, now)]>>]

\* The pages that subscribe.
Clients == {"page1", "page2"}

\* Each client's wire holds at most MaxWire undispatched frames.
MaxWire == 1

\* The frame the transport writes for an event: the event's fields as the
\* page parses them, with the session the publisher's request named and the
\* key the bus delivered it under kept as history.
wireFrame(call, requested) ==
  [parses |-> TRUE, agentId |-> call.event.agentId, text |-> call.event.text,
   status |-> call.event.status, data |-> call.event.data, ts |-> call.event.ts,
   key |-> call.session, requested |-> requested]

\* publish(sessionId, event): an event with neither text nor node id is
\* rejected; any other is written to every subscriber of sessionId.
publish(reg, w, call, requested) ==
  IF ~truthy(call.event.text) /\ ~truthy(call.event.agentId) THEN w
  ELSE [c \in Clients |->
          IF <<call.session, c>> \in reg
          THEN Append(w[c], wireFrame(call, requested))
          ELSE w[c]]

\* The wires after every publish call of a request, in order.
RECURSIVE publishAll(_, _, _, _)
publishAll(reg, w, cs, requested) ==
  IF cs = <<>> THEN w
  ELSE publishAll(reg, publish(reg, w, Head(cs), requested), Tail(cs), requested)

\* const url = `/api/progress?session=${encodeURIComponent(session)}`: the
\* session parameter the subscribe endpoint decodes is the page's session.
subscribeParam(session) == session

\* The keys the subscribe endpoint may register a session parameter under:
\* the parameter itself; whether an empty parameter counts as absent, and so
\* as "default", is the endpoint's choice.
subscribeKeys(param) == IF param = "" THEN {"", "default"} ELSE {param}

\* The effect's cleanup closes the old connection and the effect opens a new
\* one: the client leaves its old key and is registered under the new one.
resubscribe(reg, c, key) == {p \in reg : p[2] # c} \cup {<<key, c>>}

\* A cleanup that leaves the old EventSource open: its frames still arrive.
closeEventSource_leftOpen(w, c) == w

\* es.close(): a closed EventSource dispatches no further message.
closeEventSource(w, c) == [w EXCEPT ![c] = <<>>]

\* React runs the updaters a handler queued, in order.
RECURSIVE runUpdaters(_, _, _)
runUpdaters(us, prev, dateNow) ==
  IF us = <<>> THEN prev
  ELSE runUpdaters(Tail(us), applyUpdater(Head(us), prev, dateNow), dateNow)

\* The bus variables of a specification that does not run the bus.
BusIdle ==
  /\ req = NotJson
  /\ res = [status |-> 0, ok |-> FALSE, calls |-> <<>>]
  /\ calls = <<>>
  /\ registry = {}
  /\ wire = [c \in Clients |-> <<>>]
  /\ pageSession = [c \in Clients |-> "default"]
  /\ viewers = [c \in Clients |-> NoRecords]

-----------------------------------------------------------------------------
(* Inputs of the correlation specification                                 *)

MaxMatchNodes == 2

\* Nodes the matcher is tried on: the shipped nodes its rules speak of, a
\* node no rule speaks of, and a vision node under another id.
MatchPool == {
  nodes[1], nodes[2], nodes[3], nodes[4], nodes[5], nodes[8], nodes[9],
  Node("vision.ocr", "Vision OCR", "/api/vision/ocr", "analysis") }

\* Sequences of distinct elements of S, of length at most n.
RECURSIVE DistinctSeqs(_, _)
DistinctSeqs(S, n) ==
  IF n = 0 THEN {<<>>}
  ELSE LET shorter == DistinctSeqs(S, n - 1)
       IN  shorter \cup
           {Append(s, x) : <<s, x>> \in
              {p \in shorter \X S : \A i \in 1..Len(p[1]) : p[1][i] # p[2]}}

MatchGraphs ==
  {[nodes |-> ns, edges |-> <<>>] : ns \in DistinctSeqs(MatchPool, MaxMatchNodes)}
    \cup {getAgentGraph}

VeoMessage == "Generating video with veo, please wait"

Messages == {
  VeoMessage, "", "hello", "Voice session started", "VOICE video",
  "Analyzing image", "image ready", "Cultural cues and image", "culture of video",
  "imagen done", "download finished", "operation polled" }

-----------------------------------------------------------------------------
(* SpecMatch: the correlation engine as a pure function                    *)

InitMatch ==
  /\ graph \in MatchGraphs
  /\ text \in Messages
  /\ matched = Undef
  /\ layout = Undef
  /\ pc = "input"
  /\ PageIdle
  /\ BusIdle

\* page.tsx:68  const matched = matchAgentByMessage(graph, text)
Correlate ==
  /\ pc = "input"
  /\ matched' = matchAgentByMessage(graph, text)
  /\ pc' = "done"
  /\ UNCHANGED <<graph, text, layout, pageVars, busVars>>

NextMatch == Correlate

SpecMatch == InitMatch /\ [][NextMatch]_vars

-----------------------------------------------------------------------------
(* Claims about the correlation engine                                     *)

\* Rule r holds for some node of g and the lower-cased message.
ruleHoldsSomewhere(r, g, m) == \E i \in 1..Len(g.nodes) : ruleHolds(r, g.nodes[i], m)

\* Some rule holds for node i of g.
nodeHit(i, g, m) == \E r \in 1..Len(Rules) : ruleHolds(r, g.nodes[i], m)

\* The first node of g, in graph order, for which some rule holds (0: none).
firstHitNode(g, m) ==
  IF \E i \in 1..Len(g.nodes) : nodeHit(i, g, m)
  THEN CHOOSE i \in 1..Len(g.nodes) :
         nodeHit(i, g, m) /\ \A k \in 1..(i - 1) : ~nodeHit(k, g, m)
  ELSE 0

\* The first rule, in priority order, that holds for node n.
firstRuleOf(n, m) ==
  CHOOSE r \in 1..Len(Rules) :
    ruleHolds(r, n, m) /\ \A q \in 1..(r - 1) : ~ruleHolds(q, n, m)

veoGenerateNodes(g) == {i \in 1..Len(g.nodes) : g.nodes[i].name = "Veo Generate"}

\* C6 as stated: for every graph holding a node named "Veo Generate", the
\* message "Generating video with veo, please wait" is matched to the id of
\* that node, whatever the other nodes and their order.
C6_VeoMessageFindsVeoGenerate ==
  (pc = "done" /\ text = VeoMessage) =>
    \A i \in veoGenerateNodes(graph) : matched = graph.nodes[i].id

\* C6 amended: for the message "Generating video with veo, please wait" the
\* matcher returns the id of the first node, in graph order, whose name, path
\* or id contains "veo" (no match when there is none); that is the node named
\* "Veo Generate" exactly when no such node precedes it, and it is
\* "veo.generate" for the shipped graph.
C6_VeoMessageFindsFirstVeoNode ==
  (pc = "done" /\ text = VeoMessage) =>
    LET veo == {i \in 1..Len(graph.nodes) : keysInclude(graph.nodes[i], "veo")}
    IN  /\ veo = {} => matched = Undef
        /\ veo # {} =>
             matched = graph.nodes[CHOOSE i \in veo : \A k \in veo : i <= k].id
        /\ graph = getAgentGraph => matched = "veo.generate"

\* C6 witness: the message was matched on a graph in which a node named
\* "Veo Generate" comes after another veo node.
C6_Witness ==
  /\ pc = "done"
  /\ text = VeoMessage
  /\ \E i \in veoGenerateNodes(graph) :
       \E k \in 1..(i - 1) : keysInclude(graph.nodes[k], "veo")
  /\ matched # Undef

-----------------------------------------------------------------------------
(* computeLayout                                                           *)

\* Collation order of the characters that occur in names: blank and
\* punctuation before digits before letters, case ignored at this level.
Collation == " ./0123456789abcdefghijklmnopqrstuvwxyz"

\* Primary collation weight of a character (0: not in the table).
weight(c) ==
  LET l == lowerChar(c)
  IN  IF \E i \in 1..Len(Collation) : SubSeq(Collation, i, i) = l
      THEN CHOOSE i \in 1..Len(Collation) : SubSeq(Collation, i, i) = l
      ELSE 0

\* Case level of a character: lower case sorts before upper case.
caseLevel(c) == IF lowerChar(c) = c THEN 0 ELSE 1

\* The key of character c at a comparison level.
levelKey(level, c) == IF level = "primary" THEN weight(c) ELSE caseLevel(c)

\* Lexicographic comparison of strings a and b at a level: -1, 0 or 1.
RECURSIVE compareBy(_, _, _)
compareBy(level, a, b) ==
  IF Len(a) = 0 /\ Len(b) = 0 THEN 0
  ELSE IF Len(a) = 0 THEN -1
  ELSE IF Len(b) = 0 THEN 1
  ELSE LET x == levelKey(level, SubSeq(a, 1, 1))
           y == levelKey(level, SubSeq(b, 1, 1))
       IN  IF x < y THEN -1
           ELSE IF x > y THEN 1
           ELSE compareBy(level, SubSeq(a, 2, Len(a)), SubSeq(b, 2, Len(b)))

\* String.prototype.localeCompare: alphabetical first, case as the tie-break.
localeCompare(a, b) ==
  LET primary == compareBy("primary", a, b)
  IN  IF primary # 0 THEN primary ELSE compareBy("case", a, b)

\* Inserts n into the sorted list after every element that does not compare
\* greater: the insertion step of a stable sort.
RECURSIVE insertStable(_, _)
insertStable(list, n) ==
  IF list = <<>> THEN <<n>>
  ELSE LET last == list[Len(list)]
       IN  IF localeCompare(last.name, n.name) <= 0
           THEN Append(list, n)
           ELSE Append(insertStable(SubSeq(list, 1, Len(list) - 1), n), last)

\* A sort that leaves the bucket in input order.
sortByName_unsorted(list) == list

\* buckets[g].sort((a, b) => a.name.localeCompare(b.name)), a stable sort.
RECURSIVE sortByName(_)
sortByName(list) ==
  IF list = <<>> THEN <<>>
  ELSE insertStable(sortByName(SubSeq(list, 1, Len(list) - 1)), list[Len(list)])

\* buckets[g] after the bucketing loop: the nodes of group g in input order.
RECURSIVE bucket(_, _)
bucket(ns, g) ==
  IF ns = <<>> THEN <<>>
  ELSE LET rest == bucket(SubSeq(ns, 1, Len(ns) - 1), g)
           n == ns[Len(ns)]
       IN  IF n.group = g THEN Append(rest, n) ELSE rest

LaneX0 == 120
LaneDX == 260
NodeY0 == 120
NodeDY == 160
NodeWidth == 200
NodeMidY == 48

\* Lanes closer together than a node is wide.
laneX_narrow(i) == LaneX0 + (i - 1) * NodeDY

\* laneX[laneOrder[i]] for the 1-based lane index i.
laneX(i) == LaneX0 + (i - 1) * LaneDX

\* The y of the node at 0-based index idx of its lane.
nodeY(idx) == NodeY0 + idx * NodeDY

\* list.forEach((n, idx) => positionedNodes.push({ ...n, x, y })) for lane i.
placeLane(i, list) ==
  [idx \in 1..Len(list) |->
     [id |-> list[idx].id, name |-> list[idx].name, path |-> list[idx].path,
      group |-> list[idx].group, x |-> laneX(i), y |-> nodeY(idx - 1)]]

\* for (const g of laneOrder) from lane i on.
RECURSIVE placeLanes(_, _)
placeLanes(i, ns) ==
  IF i > Len(laneOrder) THEN <<>>
  ELSE placeLane(i, sortByName(bucket(ns, laneOrder[i]))) \o placeLanes(i + 1, ns)

\* find(id): the index of the first positioned node with that id, 0 for
\* undefined.
find(positionedNodes, id) ==
  IF \E i \in 1..Len(positionedNodes) : positionedNodes[i].id = id
  THEN CHOOSE i \in 1..Len(positionedNodes) :
         /\ positionedNodes[i].id = id
         /\ \A k \in 1..(i - 1) : positionedNodes[k].id # id
  ELSE 0

\* An edge loop that skips an edge only when both ends are missing.
RECURSIVE layoutEdges_keepHalfDangling(_, _, _)
layoutEdges_keepHalfDangling(positionedNodes, es, k) ==
  IF k = 0 THEN <<>>
  ELSE LET rest == layoutEdges_keepHalfDangling(positionedNodes, es, k - 1)
           e == es[k]
           a == find(positionedNodes, e.from)
           b == find(positionedNodes, e.to)
           o == [x |-> 0, y |-> 0]
           p == IF a = 0 THEN o ELSE positionedNodes[a]
           q == IF b = 0 THEN o ELSE positionedNodes[b]
       IN  IF a = 0 /\ b = 0 THEN rest
           ELSE Append(rest, [from |-> e.from, to |-> e.to,
                              x1 |-> p.x + NodeWidth, y1 |-> p.y + NodeMidY,
                              x2 |-> q.x, y2 |-> q.y + NodeMidY])

\* for (const e of graph.edges): the positioned edges of the first k edges.
RECURSIVE layoutEdges(_, _, _)
layoutEdges(positionedNodes, es, k) ==
  IF k = 0 THEN <<>>
  ELSE LET rest == layoutEdges(positionedNodes, es, k - 1)
           e == es[k]
           a == find(positionedNodes, e.from)
           b == find(positionedNodes, e.to)
       IN  IF a = 0 \/ b = 0 THEN rest
           ELSE Append(rest, [from |-> e.from, to |-> e.to,
                              x1 |-> positionedNodes[a].x + NodeWidth,
                              y1 |-> positionedNodes[a].y + NodeMidY,
                              x2 |-> positionedNodes[b].x,
                              y2 |-> positionedNodes[b].y + NodeMidY])

\* computeLayout(graph): Layout
computeLayout(g) ==
  LET positionedNodes == placeLanes(1, g.nodes)
  IN  [positionedNodes |-> positionedNodes,
       edges |-> layoutEdges(positionedNodes, g.edges, Len(g.edges))]

-----------------------------------------------------------------------------
(* Inputs of the layout specification                                      *)

MaxLayoutNodes == 2
MaxLayoutEdges == 2

\* Two names that the locale order and the code unit order sort differently.
LayoutNames == {"B", "a"}

\* The five groups and one value outside them, as a fetched payload may hold.
LayoutGroups == {laneOrder[i] : i \in 1..Len(laneOrder)} \cup {"other"}

\* Node ids are unique: the node at position i has id "n<i>".
idAt(i) == "n" \o ToString(i)

RECURSIVE LayoutNodeSeqs(_)
LayoutNodeSeqs(n) ==
  IF n = 0 THEN {<<>>}
  ELSE LET shorter == LayoutNodeSeqs(n - 1)
       IN  shorter \cup
           {Append(p[1], Node(idAt(n), p[2], "/api/" \o idAt(n), p[3])) :
              p \in {q \in shorter \X LayoutNames \X LayoutGroups : Len(q[1]) = n - 1}}

RECURSIVE SeqsUpTo(_, _)
SeqsUpTo(S, n) ==
  IF n = 0 THEN {<<>>}
  ELSE LET shorter == SeqsUpTo(S, n - 1)
       IN  shorter \cup {Append(p[1], p[2]) : p \in {q \in shorter \X S : Len(q[1]) = n - 1}}

\* Forward, backward, and dangling at either end ("ghost" is no node's id).
LayoutEdges == {
  Edge(idAt(1), idAt(2)), Edge(idAt(2), idAt(1)),
  Edge(idAt(1), "ghost"), Edge("ghost", idAt(2)) }

-----------------------------------------------------------------------------
(* SpecLayout: the layout engine as a pure function                        *)

\* The graph the page holds once the fetch has resolved (page.tsx:47-49).
InitLayout ==
  /\ \E ns \in LayoutNodeSeqs(MaxLayoutNodes) \cup {nodes},
        es \in SeqsUpTo(LayoutEdges, MaxLayoutEdges) \cup {edges} :
       /\ (ns = nodes) <=> (es = edges)
       /\ graph = [nodes |-> ns, edges |-> es]
  /\ layout = Undef
  /\ text = ""
  /\ matched = Undef
  /\ pc = "input"
  /\ PageIdle
  /\ BusIdle

\* page.tsx:94  const layout = useMemo(() => computeLayout(graph), [graph])
ComputeLayout ==
  /\ pc = "input"
  /\ layout' = computeLayout(graph)
  /\ pc' = "done"
  /\ UNCHANGED <<graph, text, matched, pageVars, busVars>>

NextLayout == ComputeLayout

SpecLayout == InitLayout /\ [][NextLayout]_vars

-----------------------------------------------------------------------------
(* Claims about the layout engine                                          *)

\* The ids of the positioned nodes.
positionedIds == {layout.positionedNodes[i].id : i \in 1..Len(layout.positionedNodes)}

\* The from/to pair of each element of a list of edges.
ends(es) == [i \in 1..Len(es) |-> <<es[i].from, es[i].to>>]

\* Both ends of edge e are positioned.
resolvable(e) == e.from \in positionedIds /\ e.to \in positionedIds

\* C7: the output edge list is exactly the input edges whose from and to are
\* both ids of positioned nodes, in input order with parallel duplicates
\* kept; an edge with an end that is no positioned node's id is absent.
C7_DanglingEdgesOmitted ==
  pc = "done" =>
    /\ ends(layout.edges) = ends(SelectSeq(graph.edges, resolvable))
    /\ \A i \in 1..Len(layout.edges) : resolvable(layout.edges[i])

\* C7 witness: a laid-out graph with a dangling edge, which was dropped, next
\* to an edge that was kept.
C7_Witness ==
  /\ pc = "done"
  /\ \E i \in 1..Len(graph.edges) : ~resolvable(graph.edges[i])
  /\ Len(graph.edges) > Len(layout.edges)
  /\ Len(layout.edges) > 0

\* Every node of the graph carries one of the five groups.
allGroupsKnown ==
  \A i \in 1..Len(graph.nodes) :
    \E l \in 1..Len(laneOrder) : graph.nodes[i].group = laneOrder[l]

\* The position in the input of the node with the given id.
inputIndex(id) == CHOOSE i \in 1..Len(graph.nodes) : graph.nodes[i].id = id

\* The number of positioned nodes of the same group before position j.
rankInLane(j) ==
  Cardinality({k \in 1..(j - 1) :
                 layout.positionedNodes[k].group = layout.positionedNodes[j].group})

\* C8: when every node carries one of the five groups, every input node is
\* positioned exactly once; within a lane the nodes are in name order with
\* ties in input order, the k-th has y = 120 + 160*k, so no two share a y,
\* and all share one x.
C8_LaneOffsetsDistinct ==
  (pc = "done" /\ allGroupsKnown) =>
    LET P == layout.positionedNodes
    IN  /\ Len(P) = Len(graph.nodes)
        /\ \A i \in 1..Len(graph.nodes) :
             Cardinality({j \in 1..Len(P) :
               /\ P[j].id = graph.nodes[i].id
               /\ P[j].name = graph.nodes[i].name
               /\ P[j].group = graph.nodes[i].group}) = 1
        /\ \A j \in 1..Len(P) : P[j].y = 120 + 160 * rankInLane(j)
        /\ \A j, k \in 1..Len(P) :
             (j < k /\ P[j].group = P[k].group) =>
               /\ P[j].y < P[k].y
               /\ P[j].x = P[k].x
               /\ localeCompare(P[j].name, P[k].name) <= 0
               /\ localeCompare(P[j].name, P[k].name) = 0 =>
                    inputIndex(P[j].id) < inputIndex(P[k].id)

\* C8 witness: a laid-out graph of known groups with a lane whose two nodes
\* arrive in the opposite of name order.
C8_Witness ==
  /\ pc = "done"
  /\ allGroupsKnown
  /\ \E i, j \in 1..Len(graph.nodes) :
       /\ i < j
       /\ graph.nodes[i].group = graph.nodes[j].group
       /\ localeCompare(graph.nodes[i].name, graph.nodes[j].name) > 0
  /\ Len(layout.positionedNodes) >= 2

\* The 1-based lane of a group (0: none).
laneOf(g) ==
  IF \E l \in 1..Len(laneOrder) : laneOrder[l] = g
  THEN CHOOSE l \in 1..Len(laneOrder) : laneOrder[l] = g
  ELSE 0

\* The lane of the positioned node with the given id.
laneOfId(id) == laneOf(layout.positionedNodes[find(layout.positionedNodes, id)].group)

\* C9: lanes lie left to right in the order orchestration, analysis,
\* generation, media, progress: of two positioned nodes the one of the
\* earlier group has the strictly smaller x; every edge from an earlier lane
\* to a later lane, such as orchestration to analysis, has x1 <= x2, and x2
\* is the lane offset of its end node.
C9_LanesLeftToRight ==
  pc = "done" =>
    LET P == layout.positionedNodes
    IN  /\ \A j, k \in 1..Len(P) :
             laneOf(P[j].group) < laneOf(P[k].group) => P[j].x < P[k].x
        /\ \A i \in 1..Len(layout.edges) :
             LET e == layout.edges[i]
             IN  /\ e.x2 = LaneX0 + (laneOfId(e.to) - 1) * LaneDX
                 /\ laneOfId(e.from) < laneOfId(e.to) => e.x1 <= e.x2

\* C9 witness: a laid-out edge from an orchestration node to an analysis node.
C9_Witness ==
  /\ pc = "done"
  /\ \E i \in 1..Len(layout.edges) :
       /\ laneOfId(layout.edges[i].from) = 1
       /\ laneOfId(layout.edges[i].to) = 2

-----------------------------------------------------------------------------
(* SpecDecay: one mounted page, its event stream and its sweep timer       *)

\* The frames the stream delivers: an explicit id, an empty id with a text
\* that correlates, a text that does not, a keep-alive object and a payload
\* that is not JSON.
DecayFrames == {
  Frame("voice.run", Undef), Frame("", "video ready"),
  Frame(Undef, "hello"), Frame(Undef, Undef), Unparseable }

InitDecay ==
  /\ graph = PageGraph
  /\ text = ""
  /\ matched = Undef
  /\ layout = Undef
  /\ pc = "mounted"
  /\ PageIdle
  /\ BusIdle

\* page.tsx:60-72  es.onmessage runs for one frame
OnMessage ==
  /\ pc = "mounted"
  /\ \E frame \in DecayFrames :
       LET queued == onmessage(frame, graph)
       IN  /\ Len(queue) + Len(queued) <= MaxQueue
           /\ queue' = queue \o queued
  /\ UNCHANGED <<graph, text, matched, layout, pc, clock, activeIds, nextSweep, lastArrival, busVars>>

\* page.tsx:83-90  the interval callback runs when it is due
SweepTick ==
  /\ pc = "mounted"
  /\ clock = nextSweep
  /\ Len(queue) < MaxQueue
  /\ queue' = Append(queue, SweepUpdater(clock))
  /\ nextSweep' = nextSweep + SweepInterval
  /\ UNCHANGED <<graph, text, matched, layout, pc, clock, activeIds, lastArrival, busVars>>

\* React runs the oldest queued updater
RunUpdater ==
  /\ pc = "mounted"
  /\ queue # <<>>
  /\ activeIds' = applyUpdater(Head(queue), activeIds, clock)
  /\ queue' = Tail(queue)
  /\ lastArrival' =
       IF Head(queue).kind = "arrival"
       THEN [lastArrival EXCEPT ![Head(queue).id] = clock]
       ELSE lastArrival
  /\ UNCHANGED <<graph, text, matched, layout, pc, clock, nextSweep, busVars>>

\* Time passes once React has run the queued updaters; the interval callback
\* is never late
Tick ==
  /\ pc = "mounted"
  /\ queue = <<>>
  /\ clock < nextSweep
  /\ clock + Step <= MaxTime
  /\ clock' = clock + Step
  /\ UNCHANGED <<graph, text, matched, layout, pc, activeIds, queue, nextSweep, lastArrival, busVars>>

NextDecay == OnMessage \/ SweepTick \/ RunUpdater \/ Tick

SpecDecay == InitDecay /\ [][NextDecay]_vars

-----------------------------------------------------------------------------
(* Claims about the activity record set                                    *)

\* No handler is due or pending: the timer is not due and no updater waits.
quiescent == pc = "mounted" /\ queue = <<>> /\ clock < nextSweep

\* The number of sweep updaters that have run.
sweepsRun ==
  ((nextSweep - MountTime) \div SweepInterval) - 1
    - Cardinality({i \in 1..Len(queue) : queue[i].kind = "sweep"})

\* C3: after an arrival at time T for node N and no further arrival for N, N
\* is active at every instant of [T, T+4000) and inactive at every instant
\* from T+4000 on, whatever the phase of the sweep timer relative to T.
C3_ActiveExactlyDecayWindow ==
  quiescent =>
    \A id \in TrackedIds :
      lastArrival[id] # 0 =>
        (nodeActive(activeIds, id) <=> clock < lastArrival[id] + DecayWindow)

\* The step runs the oldest queued updater.
runsHead == queue # <<>> /\ queue' = Tail(queue)

\* C4: a sweep removes exactly the records whose age at the sweep is at least
\* 4000 ms and keeps every other record with its timestamp; so a record made
\* when the timer starts, with sweeps 1000, 2000, ... ms later and no further
\* arrival, is present until the fourth sweep has run and absent from then on.
C4_SweepRemovesExactlyExpired ==
  /\ [][(runsHead /\ Head(queue).kind = "sweep") =>
          /\ DOMAIN activeIds' =
               {k \in DOMAIN activeIds : Head(queue).now - activeIds[k] < 4000}
          /\ \A k \in DOMAIN activeIds' : activeIds'[k] = activeIds[k]]_vars
  /\ [](\A id \in TrackedIds :
          lastArrival[id] = MountTime => (id \in DOMAIN activeIds <=> sweepsRun < 4))

\* C4 witness: the record made when the timer started has been removed by
\* the fourth sweep, and the fifth has run as well.
C4_Witness ==
  /\ pc = "mounted"
  /\ \E id \in TrackedIds : lastArrival[id] = MountTime /\ id \notin DOMAIN activeIds
  /\ sweepsRun = 5

\* C10: arrival and sweep updates take effect one at a time in the order they
\* were queued. The record set changes only when a queued update runs; an
\* arrival sets its id to the time it runs and leaves every other record as
\* it was; a sweep adds no id, changes no timestamp and removes only records
\* aged at least 4000 ms; an absent id appears only by an arrival for it; and
\* a queued update leaves the queue only by running.
C10_UpdatesSerialized ==
  [][/\ activeIds' # activeIds => runsHead
     /\ queue' # queue =>
          \/ runsHead
          \/ Len(queue') > Len(queue) /\ SubSeq(queue', 1, Len(queue)) = queue
     /\ (runsHead /\ Head(queue).kind = "arrival") =>
          /\ DOMAIN activeIds' = DOMAIN activeIds \cup {Head(queue).id}
          /\ activeIds'[Head(queue).id] = clock
          /\ \A k \in DOMAIN activeIds \ {Head(queue).id} : activeIds'[k] = activeIds[k]
     /\ (runsHead /\ Head(queue).kind = "sweep") =>
          /\ DOMAIN activeIds' \subseteq DOMAIN activeIds
          /\ \A k \in DOMAIN activeIds' : activeIds'[k] = activeIds[k]
          /\ \A k \in DOMAIN activeIds \ DOMAIN activeIds' :
               Head(queue).now - activeIds[k] >= 4000
     /\ \A k \in DOMAIN activeIds' \ DOMAIN activeIds :
          Head(queue).kind = "arrival" /\ Head(queue).id = k]_vars

\* C10 witness: a sweep that will expire a record is queued ahead of a new
\* arrival for the same id.
C10_Witness ==
  /\ Len(queue) = 2
  /\ queue[1].kind = "sweep"
  /\ queue[2].kind = "arrival"
  /\ queue[2].id \in DOMAIN activeIds
  /\ queue[1].now - activeIds[queue[2].id] >= 4000

-----------------------------------------------------------------------------
(* SpecPush: the publish endpoint on one request                           *)

PushBodies ==
  {Body(se, me, ag, st, da) :
     se \in {jsUndefined, jsString("s1")},
     me \in {jsUndefined, jsNumber("7"), jsString(""), jsString(" \t"),
             jsString(" video "), jsString("video")},
     ag \in {jsUndefined, jsNumber("7"), jsString(""), jsString(" "),
             jsString("voice.run")},
     st \in {jsUndefined, jsString("running")},
     da \in {jsUndefined, jsObject}}
    \cup {NotJson}

\* One page subscribed to "default" and one to "s1".
InitPush ==
  /\ req \in PushBodies
  /\ res = [status |-> 0, ok |-> FALSE, calls |-> <<>>]
  /\ calls = <<>>
  /\ registry = {<<"default", "page1">>, <<"s1", "page2">>}
  /\ wire = [c \in Clients |-> <<>>]
  /\ pageSession = [c \in Clients |-> IF c = "page1" THEN "default" ELSE "s1"]
  /\ viewers = [c \in Clients |-> NoRecords]
  /\ graph = PageGraph
  /\ text = ""
  /\ matched = Undef
  /\ layout = Undef
  /\ pc = "input"
  /\ PageIdle

\* part_000:6-22  POST handles req: the response goes out and the bus has
\* written the event to the subscribers of its session
Post ==
  /\ pc = "input"
  /\ res' = POST(req, clock)
  /\ calls' = res'.calls
  /\ wire' = publishAll(registry, wire, res'.calls, req.session)
  /\ pc' = "done"
  /\ UNCHANGED <<graph, text, matched, layout, pageVars, req, registry, pageSession, viewers>>

NextPush == Post

SpecPush == InitPush /\ [][NextPush]_vars

-----------------------------------------------------------------------------
(* Claims about the publish endpoint                                       *)

\* Every character of s is white space (so is the empty string).
blank(s) == \A i \in 1..Len(s) : SubSeq(s, i, i) \in WhiteSpace

\* The message is absent, not a string, empty or white space only.
messageMissing(body) == ~isString(body.message) \/ blank(body.message.v)

\* The agentId is absent, not a string or empty.
agentIdMissing(body) == ~isString(body.agentId) \/ body.agentId.v = ""

\* C1: a request (with a JSON body) whose message is absent, non-string,
\* empty or white space only and whose agentId is absent, non-string or
\* empty is answered 400 without a publish call, and no subscriber of any
\* session receives anything; every other request with a JSON body makes
\* exactly one publish call and is answered ok.
C1_InvalidEventRejected ==
  (pc = "done" /\ req.parses) =>
    IF messageMissing(req) /\ agentIdMissing(req)
    THEN /\ res.status = 400
         /\ ~res.ok
         /\ calls = <<>>
         /\ \A c \in Clients : wire[c] = <<>>
    ELSE /\ res.status = 200
         /\ res.ok
         /\ Len(calls) = 1

\* C1 witness: a request with a white-space-only message and an empty
\* agentId has been answered.
C1_Witness ==
  /\ pc = "done"
  /\ req.parses
  /\ isString(req.message) /\ req.message.v # "" /\ blank(req.message.v)
  /\ isString(req.agentId) /\ req.agentId.v = ""
  /\ res.status # 0

-----------------------------------------------------------------------------
(* SpecBus: publishers, the bus and two pages that change session          *)

\* Requests that name no session, the empty session, "default" and "s1"
\* with an explicit node id, one with a text, one invalid and one not JSON.
BusBodies ==
  {Body(se, jsUndefined, jsString("voice.run"), jsUndefined, jsUndefined) :
     se \in {jsUndefined, jsString(""), jsString("default"), jsString("s1")}}
    \cup {Body(jsUndefined, jsString(" video "), jsUndefined, jsUndefined, jsUndefined),
          Body(jsString("s1"), jsString(" "), jsString(""), jsUndefined, jsUndefined),
          NotJson}

\* The values typed into the session input.
PageSessions == {"default", "s1", ""}

\* page.tsx:41, 57-59  both pages mount with session "default" and subscribe
InitBus ==
  /\ req = NotJson
  /\ res = [status |-> 0, ok |-> FALSE, calls |-> <<>>]
  /\ calls = <<>>
  /\ registry = {<<"default", c>> : c \in Clients}
  /\ wire = [c \in Clients |-> <<>>]
  /\ pageSession = [c \in Clients |-> "default"]
  /\ viewers = [c \in Clients |-> NoRecords]
  /\ graph = PageGraph
  /\ text = ""
  /\ matched = Undef
  /\ layout = Undef
  /\ pc = "serving"
  /\ PageIdle

\* part_000:6-22  a publisher's request is handled
Push ==
  /\ pc = "serving"
  /\ \E body \in BusBodies :
       /\ req' = body
       /\ res' = POST(body, clock)
       /\ calls' = res'.calls
       /\ wire' = publishAll(registry, wire, res'.calls, body.session)
  /\ \A c \in Clients : Len(wire'[c]) <= MaxWire
  /\ UNCHANGED <<graph, text, matched, layout, pc, pageVars, registry, pageSession, viewers>>

\* page.tsx:109, 57-79  the user changes the session: setSession, the
\* effect's cleanup closes the EventSource and the effect opens a new one
SetSession(c) ==
  /\ pc = "serving"
  /\ \E s \in PageSessions \ {pageSession[c]} :
       /\ pageSession' = [pageSession EXCEPT ![c] = s]
       /\ \E key \in subscribeKeys(subscribeParam(s)) :
            registry' = resubscribe(registry, c, key)
  /\ wire' = closeEventSource(wire, c)
  /\ UNCHANGED <<graph, text, matched, layout, pc, pageVars, req, res, calls, viewers>>

\* page.tsx:60-72  es.onmessage runs for the next frame of client c, and
\* React runs the updater it queued
Dispatch(c) ==
  /\ pc = "serving"
  /\ wire[c] # <<>>
  /\ viewers' = [viewers EXCEPT
                   ![c] = runUpdaters(onmessage(Head(wire[c]), graph), viewers[c], clock)]
  /\ wire' = [wire EXCEPT ![c] = Tail(wire[c])]
  /\ UNCHANGED <<graph, text, matched, layout, pc, pageVars, req, res, calls, registry, pageSession>>

NextBus == Push \/ (\E c \in Clients : SetSession(c)) \/ (\E c \in Clients : Dispatch(c))

SpecBus == InitBus /\ [][NextBus]_vars

-----------------------------------------------------------------------------
(* Claims about session isolation                                          *)

\* The key client c is registered under.
keyOf(c) == CHOOSE k \in {p[1] : p \in registry} : <<k, c>> \in registry

\* The step dispatches the oldest frame on the wire of client c.
dispatches(c) ==
  /\ wire[c] # <<>>
  /\ wire'[c] = Tail(wire[c])
  /\ pageSession'[c] = pageSession[c]

\* The session key of a request as C2 states it: the session it names,
\* "default" when it names none.
statedKey(session) == IF session.t = "undefined" THEN "default" ELSE session.v

\* The session key of a request as amended: "default" also when the session
\* it names is empty (or another falsy value).
amendedKey(session) ==
  IF session.t = "undefined" \/ session.v = "" \/ (session.t = "number" /\ session.v = "0")
  THEN "default"
  ELSE session.v

\* C2 as stated: an event accepted for session key S1 ("default" when the
\* request names none) is observed only by clients whose selected session key
\* is S1, and only such events change a viewer's activity record.
C2_IsolationByStatedKey ==
  [][\A c \in Clients :
       pageSession[c] # "" =>
         /\ dispatches(c) => statedKey(Head(wire[c]).requested) = pageSession[c]
         /\ viewers'[c] # viewers[c] => dispatches(c)]_vars

\* C2 amended: the endpoint publishes under the request's session key, which
\* is "default" when the session is absent or empty; a client with a
\* non-empty selected session is subscribed under exactly that key (for an
\* empty one the subscribe endpoint decides between it and "default"); a
\* client observes only events published under the key it is subscribed to,
\* and only those change its activity record.
C2_IsolationByKey ==
  [][\A c \in Clients :
       /\ viewers'[c] # viewers[c] => dispatches(c)
       /\ dispatches(c) =>
            /\ Head(wire[c]).key = amendedKey(Head(wire[c]).requested)
            /\ Head(wire[c]).key = keyOf(c)
            /\ pageSession[c] # "" => keyOf(c) = pageSession[c]
            /\ pageSession[c] = "" => keyOf(c) \in {"", "default"}]_vars

\* C2 witness: an event published to "s1" has been recorded by the viewer of
\* "s1" and not by the viewer of "default".
C2_Witness ==
  /\ pc = "serving"
  /\ req.session = jsString("s1")
  /\ res.status = 200
  /\ pageSession["page1"] = "default" /\ viewers["page1"] = NoRecords
  /\ pageSession["page2"] = "s1" /\ viewers["page2"] # NoRecords
  /\ \A c \in Clients : wire[c] = <<>>

-----------------------------------------------------------------------------
(* SpecFrame: the effect of single stream frames on the activity records   *)

\* The clock runs for MaxFrameTicks steps while frames are handled.
MaxFrameTicks == 2

\* The frames handled one at a time: an explicit id alone, an explicit id
\* with a text the engine would correlate to another node, an id of no node,
\* an empty id with a text that correlates, texts that correlate and that do
\* not, an empty text, a keep-alive object and a payload that is not JSON.
FrameInputs == {
  Frame("voice.run", Undef), Frame("voice.run", "video ready"),
  Frame("ghost.node", "hello"), Frame("", "video ready"),
  Frame(Undef, "Voice session started"), Frame(Undef, "hello"),
  Frame(Undef, ""), Frame(Undef, Undef), Unparseable }

\* The graph of the render that installed the handler: before the fetch
\* resolved, or the served graph.
FrameGraphs == {InitialGraph, getAgentGraph}

InitFrame ==
  /\ graph \in FrameGraphs
  /\ text = ""
  /\ matched = Undef
  /\ layout = Undef
  /\ pc = "mounted"
  /\ PageIdle
  /\ BusIdle

\* The stream delivers the next frame to the page's EventSource
Deliver ==
  /\ pc = "mounted"
  /\ wire["page1"] = <<>>
  /\ queue = <<>>
  /\ \E frame \in FrameInputs : wire' = [wire EXCEPT !["page1"] = <<frame>>]
  /\ UNCHANGED <<graph, text, matched, layout, pc, pageVars, req, res, calls, registry, pageSession, viewers>>

\* page.tsx:60-72  es.onmessage runs for the delivered frame
HandleFrame ==
  /\ pc = "mounted"
  /\ wire["page1"] # <<>>
  /\ queue' = queue \o onmessage(Head(wire["page1"]), graph)
  /\ wire' = [wire EXCEPT !["page1"] = Tail(wire["page1"])]
  /\ UNCHANGED <<graph, text, matched, layout, pc, clock, activeIds, nextSweep, lastArrival,
                 req, res, calls, registry, pageSession, viewers>>

\* React runs the updater the handler queued
RenderFrame ==
  /\ pc = "mounted"
  /\ queue # <<>>
  /\ activeIds' = applyUpdater(Head(queue), activeIds, clock)
  /\ queue' = Tail(queue)
  /\ UNCHANGED <<graph, text, matched, layout, pc, clock, nextSweep, lastArrival, busVars>>

\* Time passes once React has run the queued updater
FrameTick ==
  /\ pc = "mounted"
  /\ queue = <<>>
  /\ clock + Step <= MountTime + MaxFrameTicks * Step
  /\ clock' = clock + Step
  /\ UNCHANGED <<graph, text, matched, layout, pc, activeIds, queue, nextSweep, lastArrival, busVars>>

NextFrame == Deliver \/ HandleFrame \/ RenderFrame \/ FrameTick

SpecFrame == InitFrame /\ [][NextFrame]_vars

-----------------------------------------------------------------------------
(* Claims about the effect of a frame                                      *)

\* The step runs es.onmessage for the delivered frame.
handles == wire["page1"] # <<>> /\ wire'["page1"] = Tail(wire["page1"])

\* The frame carries an agentId (a non-empty one: the handler tests it for
\* truthiness).
carriesAgentId(frame) == frame.parses /\ truthy(frame.agentId)

\* The frame has no agentId and its text is absent, empty or matched by no
\* rule, or its payload is not JSON.
inert(frame, g) ==
  \/ ~frame.parses
  \/ /\ ~truthy(frame.agentId)
     /\ \/ ~truthy(frame.text)
        \/ matchAgentByMessage(g, frame.text) = Undef

\* The step runs the updater of an arrival.
rendersArrival == queue # <<>> /\ queue' = Tail(queue) /\ Head(queue).kind = "arrival"

\* C11: a frame without agentId whose text is absent, empty or matched by no
\* rule, and a frame that is not JSON, queue no update and leave the activity
\* records unchanged; a frame with an agentId queues exactly one update, for
\* that id, whatever its text and the graph are, and that update sets the
\* id's record to the current time and leaves every other record as it was.
C11_FrameEffect ==
  [][/\ handles =>
          LET frame == Head(wire["page1"])
          IN  /\ activeIds' = activeIds
              /\ inert(frame, graph) => queue' = queue
              /\ carriesAgentId(frame) =>
                   queue' = Append(queue, ArrivalUpdater(frame.agentId))
     /\ rendersArrival =>
          /\ DOMAIN activeIds' = DOMAIN activeIds \cup {Head(queue).id}
          /\ activeIds'[Head(queue).id] = clock
          /\ \A k \in DOMAIN activeIds \ {Head(queue).id} : activeIds'[k] = activeIds[k]
     /\ activeIds' # activeIds => rendersArrival]_vars

\* C11 witness: with the served graph, frames with explicit ids were recorded
\* (one of them the id of no node), the later one left the earlier record as
\* it was, and no other id was recorded.
C11_Witness ==
  /\ pc = "mounted"
  /\ graph = getAgentGraph
  /\ queue = <<>>
  /\ wire["page1"] = <<>>
  /\ DOMAIN activeIds = {"voice.run", "ghost.node"}
  /\ activeIds["voice.run"] < activeIds["ghost.node"]

-----------------------------------------------------------------------------
(* Claims about the ids the correlation engine returns                     *)

\* The ids of the nodes of g.
nodeIds(g) == {g.nodes[i].id : i \in 1..Len(g.nodes)}

\* The ids of the nodes of g with a lookup key that contains the keyword.
keywordNodeIds(g, keyword) ==
  {g.nodes[i].id : i \in {k \in 1..Len(g.nodes) : keysInclude(g.nodes[k], keyword)}}

\* The rule that wins for g and the lower-cased message m: the first rule
\* that holds for the first node for which any rule holds.
winningRule(g, m) == firstRuleOf(g.nodes[firstHitNode(g, m)], m)

\* C12 as stated: a non-null id returned by matchAgentByMessage is the id of
\* a node of the given graph whose name, path or id contains the winning
\* rule's keyword, so every id the correlation path records is the id of a
\* node of the graph.
C12_MatchedIsKeywordNode ==
  (pc = "done" /\ matched # Undef) =>
    /\ matched \in keywordNodeIds(graph, Rules[winningRule(graph, toLowerCase(text))].keyword)
    /\ matched \in nodeIds(graph)

\* C12 amended: when the veo rule wins, the id returned is the id of the
\* node the rule held for, a node of the graph whose name, path or id
\* contains "veo"; when one of the other four rules wins, the id returned is
\* that rule's fixed id (voice.run, vision.analyze, cultural.intelligence,
\* imagen.generate), which is the id of a node of the graph only if the graph
\* has a node with that id; for the served graph every id returned is the id
\* of a node whose name, path or id contains the winning rule's keyword.
C12_MatchedIsNodeOrFixedId ==
  (pc = "done" /\ matched # Undef) =>
    LET m == toLowerCase(text)
        r == winningRule(graph, m)
    IN  /\ Rules[r].returns = Undef =>
             /\ matched = graph.nodes[firstHitNode(graph, m)].id
             /\ matched \in keywordNodeIds(graph, Rules[r].keyword)
        /\ Rules[r].returns # Undef =>
             /\ matched = Rules[r].returns
             /\ (matched \in nodeIds(graph)) <=>
                  (\E i \in 1..Len(graph.nodes) : graph.nodes[i].id = Rules[r].returns)
        /\ graph = getAgentGraph =>
             matched \in keywordNodeIds(graph, Rules[r].keyword)

\* C12 witness: the matcher has returned an id that is the id of no node of
\* the graph it was given.
C12_Witness ==
  /\ pc = "done"
  /\ matched # Undef
  /\ matched \notin nodeIds(graph)

====
